---- MODULE Spec2Model ----
(***************************************************************************)
(* A model of the minesweeper engine of src/src/lib.rs: the Minesweeper   *)
(* struct (board, game_state, size, bomb_count), its constructors new and *)
(* new_with_first_click, and the operations click_tile (with flood_fill,  *)
(* expose_all_bombs, check_win_condition) and toggle_flag.                 *)
(***************************************************************************)
EXTENDS Integers, Sequences, FiniteSets, TLC

\* ------------------------------------------------------------------ bounds
\* Largest board side explored.
MaxSize == 3
\* Longest list of mine coordinates handed to Minesweeper::new.
MaxMines == 2
\* Most successful click_tile and toggle_flag calls made on one game.
MaxMoves == 3
\* Largest board side handed to new_with_first_click.
MaxGenSize == 4
\* Largest bomb_count handed to new_with_first_click.
MaxBombCount == 2

\* ------------------------------------------------------------------- state
VARIABLES
    board,          \* Minesweeper.board: (x, y) -> Tile
    game_state,     \* Minesweeper.game_state
    size,           \* Minesweeper.size
    bomb_count,     \* Minesweeper.bomb_count
    pc,             \* where control is: "start" (no game yet), "idle" (between
                    \* calls), "flood_fill" (inside its loop), "panic" (aborted)
    queue,          \* flood_fill: the work queue (VecDeque)
    visited,        \* flood_fill: the visited grid
    start,          \* flood_fill: (start_x, start_y)
    pushed,         \* history: every coordinate push_back'ed by the running flood_fill
    popped,         \* history: every coordinate pop_front'ed by the running flood_fill
    result,         \* what the last call returned: "Ok", an Err message, or "none"
    moves,          \* history: the number of successful click_tile/toggle_flag calls
    call            \* the constructor call that builds the game, with its arguments
                    \* (SpecNew, SpecGen), or <<>>

vars == <<board, game_state, size, bomb_count, pc, queue, visited, start,
          pushed, popped, result, moves, call>>

\* ------------------------------------------------------------------- tiles
Bomb == [tag |-> "Bomb", n |-> 0]
Number(k) == [tag |-> "Number", n |-> k]

Tile_new == [value |-> Number(0), exposed |-> FALSE, flagged |-> FALSE]

is_bomb(tile) == tile.value.tag = "Bomb"

set_bomb(tile) == [tile EXCEPT !.value = Bomb]

set_number(tile, count) == [tile EXCEPT !.value = Number(count)]

\* The error strings of click_tile and toggle_flag.
ErrFinished == "Game is already finished"
ErrInvalid == "Invalid coordinates"
ErrUnavailable == "Tile already exposed or flagged"
ErrExposed == "Cannot flag exposed tile"

\* ------------------------------------------------------------------- board
Cells(n) == (0 .. n - 1) \X (0 .. n - 1)

\* The (dx, dy) pairs in the order of the nested loops `for dx in -1..=1`,
\* `for dy in -1..=1`.
Offsets == << <<-1, -1>>, <<-1, 0>>, <<-1, 1>>,
              << 0, -1>>, << 0, 0>>, << 0, 1>>,
              << 1, -1>>, << 1, 0>>, << 1, 1>> >>

in_grid(nx, ny, n) == nx >= 0 /\ ny >= 0 /\ nx < n /\ ny < n

create_empty_board(n) == [c \in Cells(n) |-> Tile_new]

\* count_adjacent_bombs with `nx > 0 && ny > 0` for its lower bounds check.
count_adjacent_bombs_skipping_row_0(b, x, y, n) ==
    Cardinality({i \in 1 .. Len(Offsets) :
        LET dx == Offsets[i][1]
            dy == Offsets[i][2]
            nx == x + dx
            ny == y + dy
        IN  /\ ~(dx = 0 /\ dy = 0)
            /\ nx > 0 /\ ny > 0 /\ nx < n /\ ny < n
            /\ is_bomb(b[<<nx, ny>>])})

count_adjacent_bombs(b, x, y, n) ==
    Cardinality({i \in 1 .. Len(Offsets) :
        LET dx == Offsets[i][1]
            dy == Offsets[i][2]
            nx == x + dx
            ny == y + dy
        IN  /\ ~(dx = 0 /\ dy = 0)
            /\ in_grid(nx, ny, n)
            /\ is_bomb(b[<<nx, ny>>])})

\* place_bombs writing board[y][x] for board[x][y].
RECURSIVE place_bombs_transposed(_, _, _, _)
place_bombs_transposed(b, mines, i, n) ==
    IF i > Len(mines) THEN b
    ELSE LET x == mines[i][1]
             y == mines[i][2]
         IN  IF x < n /\ y < n
             THEN place_bombs_transposed([b EXCEPT ![<<y, x>>] = set_bomb(@)],
                                         mines, i + 1, n)
             ELSE place_bombs_transposed(b, mines, i + 1, n)

\* The first loop of new: each in-range coordinate of the list becomes a Bomb.
RECURSIVE place_bombs(_, _, _, _)
place_bombs(b, mines, i, n) ==
    IF i > Len(mines) THEN b
    ELSE LET x == mines[i][1]
             y == mines[i][2]
         IN  IF x < n /\ y < n
             THEN place_bombs([b EXCEPT ![<<x, y>>] = set_bomb(@)], mines, i + 1, n)
             ELSE place_bombs(b, mines, i + 1, n)

\* The second loop of new: every tile that is no Bomb gets its neighbour count.
set_numbers(b, n) ==
    [c \in Cells(n) |->
        IF ~is_bomb(b[c])
        THEN set_number(b[c], count_adjacent_bombs(b, c[1], c[2], n))
        ELSE b[c]]

\* Minesweeper::new(size, mine_locations)
new(n, mines) ==
    [board |-> set_numbers(place_bombs(create_empty_board(n), mines, 1, n), n),
     game_state |-> "InProgress",
     size |-> n,
     bomb_count |-> Len(mines)]

\* get_tile / get_tile_mut: Some(tile) inside the grid, None outside.
has_tile(g, x, y) == x < g.size /\ y < g.size

\* ------------------------------------------------------ click_tile helpers
\* expose_all_bombs without its is_bomb test.
expose_all_tiles(b) == [c \in DOMAIN b |-> [b[c] EXCEPT !.exposed = TRUE]]

\* expose_all_bombs writing `tile.exposed = tile.is_bomb()` on every tile.
expose_only_bombs(b) == [c \in DOMAIN b |-> [b[c] EXCEPT !.exposed = is_bomb(b[c])]]

expose_all_bombs(b) ==
    [c \in DOMAIN b |-> IF is_bomb(b[c]) THEN [b[c] EXCEPT !.exposed = TRUE] ELSE b[c]]

\* The count of check_win_condition without its !is_bomb test.
unexposed_tiles(b) == Cardinality({c \in DOMAIN b : ~b[c].exposed})

\* The count of check_win_condition skipping flagged tiles as well.
unexposed_unflagged_non_bombs(b) ==
    Cardinality({c \in DOMAIN b : ~is_bomb(b[c]) /\ ~b[c].exposed /\ ~b[c].flagged})

unexposed_non_bombs(b) ==
    Cardinality({c \in DOMAIN b : ~is_bomb(b[c]) /\ ~b[c].exposed})

\* check_win_condition: the game_state it leaves, given the one it finds.
check_win_condition(b, gs) ==
    IF unexposed_non_bombs(b) = 0 THEN "Won" ELSE gs

\* click_tile refusing a lost game only.
click_error_lost_only(g, x, y) ==
    IF g.game_state = "Lost" THEN ErrFinished
    ELSE IF ~has_tile(g, x, y) THEN ErrInvalid
    ELSE IF g.board[<<x, y>>].exposed \/ g.board[<<x, y>>].flagged THEN ErrUnavailable
    ELSE "none"

\* click_tile testing `tile.flagged` alone before it goes on.
click_error_allowing_exposed(g, x, y) ==
    IF g.game_state # "InProgress" THEN ErrFinished
    ELSE IF ~has_tile(g, x, y) THEN ErrInvalid
    ELSE IF g.board[<<x, y>>].flagged THEN ErrUnavailable
    ELSE "none"

\* click_tile testing `tile.exposed` alone before it goes on.
click_error_ignoring_flags(g, x, y) ==
    IF g.game_state # "InProgress" THEN ErrFinished
    ELSE IF ~has_tile(g, x, y) THEN ErrInvalid
    ELSE IF g.board[<<x, y>>].exposed THEN ErrUnavailable
    ELSE "none"

\* The early returns of click_tile: the Err it returns, or "none" when it goes on.
click_error(g, x, y) ==
    IF g.game_state # "InProgress" THEN ErrFinished
    ELSE IF ~has_tile(g, x, y) THEN ErrInvalid
    ELSE IF g.board[<<x, y>>].exposed \/ g.board[<<x, y>>].flagged THEN ErrUnavailable
    ELSE "none"

\* toggle_flag without its game_state test.
flag_error_any_state(g, x, y) ==
    IF ~has_tile(g, x, y) THEN ErrInvalid
    ELSE IF g.board[<<x, y>>].exposed THEN ErrExposed
    ELSE "none"

\* toggle_flag without its `tile.exposed` test.
flag_error_allowing_exposed(g, x, y) ==
    IF g.game_state # "InProgress" THEN ErrFinished
    ELSE IF ~has_tile(g, x, y) THEN ErrInvalid
    ELSE "none"

\* The early returns of toggle_flag.
flag_error(g, x, y) ==
    IF g.game_state # "InProgress" THEN ErrFinished
    ELSE IF ~has_tile(g, x, y) THEN ErrInvalid
    ELSE IF g.board[<<x, y>>].exposed THEN ErrExposed
    ELSE "none"

\* click_tile whose Number(_) arm does not call check_win_condition.
click_tile_without_win_check(g, x, y) ==
    LET err == click_error(g, x, y) IN
    IF err # "none" THEN [game |-> g, result |-> err, fill |-> FALSE]
    ELSE LET tile == g.board[<<x, y>>] IN
         IF is_bomb(tile)
         THEN [game |-> [g EXCEPT !.game_state = "Lost",
                                  !.board = expose_all_bombs(g.board)],
               result |-> "Ok", fill |-> FALSE]
         ELSE IF tile.value = Number(0)
         THEN [game |-> g, result |-> "none", fill |-> TRUE]
         ELSE [game |-> [g EXCEPT !.board[<<x, y>>].exposed = TRUE],
               result |-> "Ok", fill |-> FALSE]

\* click_tile on game g, up to its return or its call of flood_fill (fill):
\* the game it leaves and the Result it returns.
click_tile(g, x, y) ==
    LET err == click_error(g, x, y) IN
    IF err # "none" THEN [game |-> g, result |-> err, fill |-> FALSE]
    ELSE LET tile == g.board[<<x, y>>] IN
         IF is_bomb(tile)
         THEN [game |-> [g EXCEPT !.game_state = "Lost",
                                  !.board = expose_all_bombs(g.board)],
               result |-> "Ok", fill |-> FALSE]
         ELSE IF tile.value = Number(0)
         THEN [game |-> g, result |-> "none", fill |-> TRUE]
         ELSE LET b1 == [g.board EXCEPT ![<<x, y>>].exposed = TRUE] IN
              [game |-> [g EXCEPT !.board = b1,
                                  !.game_state = check_win_condition(b1, g.game_state)],
               result |-> "Ok", fill |-> FALSE]

\* toggle_flag writing `tile.flagged = true`.
toggle_flag_set_only(g, x, y) ==
    LET err == flag_error(g, x, y) IN
    IF err # "none" THEN [game |-> g, result |-> err]
    ELSE [game |-> [g EXCEPT !.board[<<x, y>>].flagged = TRUE], result |-> "Ok"]

\* toggle_flag on game g.
toggle_flag(g, x, y) ==
    LET err == flag_error(g, x, y) IN
    IF err # "none" THEN [game |-> g, result |-> err]
    ELSE [game |-> [g EXCEPT !.board[<<x, y>>].flagged = ~@], result |-> "Ok"]

\* -------------------------------------------------------------- flood_fill
\* visit without its !flagged test.
visit_ignoring_flags(st, nx, ny) ==
    IF in_grid(nx, ny, size)
       /\ ~st.visited[<<nx, ny>>]
       /\ ~is_bomb(st.board[<<nx, ny>>])
    THEN [board |-> [st.board EXCEPT ![<<nx, ny>>].exposed = TRUE],
          visited |-> [st.visited EXCEPT ![<<nx, ny>>] = TRUE],
          queue |-> IF st.board[<<nx, ny>>].value = Number(0)
                    THEN Append(st.queue, <<nx, ny>>) ELSE st.queue,
          pushed |-> IF st.board[<<nx, ny>>].value = Number(0)
                     THEN Append(st.pushed, <<nx, ny>>) ELSE st.pushed]
    ELSE st

\* visit without its !visited test.
visit_revisiting(st, nx, ny) ==
    IF in_grid(nx, ny, size)
       /\ ~is_bomb(st.board[<<nx, ny>>])
       /\ ~st.board[<<nx, ny>>].flagged
    THEN [board |-> [st.board EXCEPT ![<<nx, ny>>].exposed = TRUE],
          visited |-> [st.visited EXCEPT ![<<nx, ny>>] = TRUE],
          queue |-> IF st.board[<<nx, ny>>].value = Number(0)
                    THEN Append(st.queue, <<nx, ny>>) ELSE st.queue,
          pushed |-> IF st.board[<<nx, ny>>].value = Number(0)
                     THEN Append(st.pushed, <<nx, ny>>) ELSE st.pushed]
    ELSE st

\* One neighbour (nx, ny) of a dequeued zero tile: lines 269-285.
visit(st, nx, ny) ==
    IF in_grid(nx, ny, size)
       /\ ~st.visited[<<nx, ny>>]
       /\ ~is_bomb(st.board[<<nx, ny>>])
       /\ ~st.board[<<nx, ny>>].flagged
    THEN [board |-> [st.board EXCEPT ![<<nx, ny>>].exposed = TRUE],
          visited |-> [st.visited EXCEPT ![<<nx, ny>>] = TRUE],
          queue |-> IF st.board[<<nx, ny>>].value = Number(0)
                    THEN Append(st.queue, <<nx, ny>>) ELSE st.queue,
          pushed |-> IF st.board[<<nx, ny>>].value = Number(0)
                     THEN Append(st.pushed, <<nx, ny>>) ELSE st.pushed]
    ELSE st

\* The two nested loops over dx and dy, from the i-th offset on. (The state
\* after the i-th offset is bound as the element of a one-element set, so
\* that it is computed once however often the later offsets read it.)
RECURSIVE visit_neighbours(_, _, _, _)
visit_neighbours(st, x, y, i) ==
    IF i > Len(Offsets) THEN st
    ELSE LET dx == Offsets[i][1]
             dy == Offsets[i][2]
         IN  CHOOSE after \in
                 {visit_neighbours(next, x, y, i + 1) :
                     next \in {IF dx = 0 /\ dy = 0
                               THEN st
                               ELSE visit(st, x + dx, y + dy)}} : TRUE

\* stops_fill with `n >= 0` for `n > 0`.
stops_fill_at_zero(tile) == tile.value.tag = "Number" /\ tile.value.n >= 0

\* Whether the loop body stops after exposing the dequeued tile (`continue`).
stops_fill(tile) == tile.value.tag = "Number" /\ tile.value.n > 0

\* One iteration of `while let Some((x, y)) = queue.pop_front()`.
flood_iteration(st) ==
    LET x == Head(st.queue)[1]
        y == Head(st.queue)[2]
        b1 == [st.board EXCEPT ![<<x, y>>].exposed = TRUE]
        st1 == [board |-> b1, visited |-> st.visited, queue |-> Tail(st.queue),
                pushed |-> st.pushed]
    IN  IF stops_fill(b1[<<x, y>>]) THEN st1 ELSE visit_neighbours(st1, x, y, 1)

\* ---------------------------------------------------- new_with_first_click
contains(list, pos) == \E i \in 1 .. Len(list) : list[i] = pos

\* Every position of the grid, row by row (lines 107-112).
grid_positions(n) == [i \in 1 .. n * n |-> <<(i - 1) \div n, (i - 1) % n>>]

\* get_area_around skipping (x, y) itself, as count_adjacent_bombs does.
get_area_around_without_centre(x, y, n) ==
    LET inside == SelectSeq(Offsets, LAMBDA d : /\ ~(d[1] = 0 /\ d[2] = 0)
                                                /\ in_grid(x + d[1], y + d[2], n))
    IN  [i \in 1 .. Len(inside) |-> <<x + inside[i][1], y + inside[i][2]>>]

\* get_area_around without the diagonal offsets: (x, y) and the four
\* positions beside, above and below it.
get_area_around_orthogonal(x, y, n) ==
    LET inside == SelectSeq(Offsets, LAMBDA d : /\ d[1] = 0 \/ d[2] = 0
                                                /\ in_grid(x + d[1], y + d[2], n))
    IN  [i \in 1 .. Len(inside) |-> <<x + inside[i][1], y + inside[i][2]>>]

\* get_area_around: the in-grid positions of the 3x3 block around (x, y).
get_area_around(x, y, n) ==
    LET inside == SelectSeq(Offsets, LAMBDA d : in_grid(x + d[1], y + d[2], n))
    IN  [i \in 1 .. Len(inside) |-> <<x + inside[i][1], y + inside[i][2]>>]

\* candidate_positions whose fallback list keeps the first-click position.
candidate_positions_full_fallback(n, bombs, fx, fy) ==
    LET forbidden_positions == get_area_around_without_centre(fx, fy, n) \o <<<<fx, fy>>>>
        retained == SelectSeq(grid_positions(n),
                              LAMBDA pos : ~contains(forbidden_positions, pos))
    IN  IF Len(retained) < bombs THEN grid_positions(n) ELSE retained

\* all_positions when the draws begin (lines 114-129).
candidate_positions(n, bombs, fx, fy) ==
    LET forbidden_positions == get_area_around(fx, fy, n)
        retained == SelectSeq(grid_positions(n),
                              LAMBDA pos : ~contains(forbidden_positions, pos))
    IN  IF Len(retained) < bombs
        THEN SelectSeq(grid_positions(n), LAMBDA pos : pos[1] # fx \/ pos[2] # fy)
        ELSE retained

\* Vec::remove replaced by a read of all_positions[index]: nothing is removed.
remove_at_keeping(list, index) == list

\* Vec::remove(index), index counted from 0.
remove_at(list, index) ==
    [i \in 1 .. Len(list) - 1 |-> IF i <= index THEN list[i] ELSE list[i + 1]]

\* The loop of lines 135-138, from its i-th iteration on: draws[i] is what
\* gen_range(0..all_positions.len()) returns in that iteration.
RECURSIVE draw_mines(_, _, _, _)
draw_mines(all_positions, mines, draws, i) ==
    IF i > Len(draws) THEN mines
    ELSE draw_mines(remove_at(all_positions, draws[i]),
                    Append(mines, all_positions[draws[i] + 1]), draws, i + 1)

\* What the random source can return over k draws from a pool of p positions:
\* the i-th draw is an index below the p - (i - 1) positions then left.
DrawOutcomes(p, k) == {d \in [1 .. k -> 0 .. p - 1] : \A i \in 1 .. k : d[i] <= p - i}

Min(a, b) == IF a < b THEN a ELSE b

\* ------------------------------------------------------------------ actions
self == [board |-> board, game_state |-> game_state, size |-> size,
         bomb_count |-> bomb_count]

fill_vars == <<queue, visited, start, pushed, popped>>

\* The game a call leaves.
Leaves(g) ==
    /\ board' = g.board
    /\ game_state' = g.game_state
    /\ size' = g.size
    /\ bomb_count' = g.bomb_count

\* click_tile(x, y) on game g has returned r.result, or has entered flood_fill,
\* which then runs as FloodStep steps and returns in FloodDone.
Clicked(r, x, y) ==
    /\ Leaves(r.game)
    /\ IF r.fill
       THEN /\ pc' = "flood_fill"
            /\ queue' = <<<<x, y>>>>
            /\ visited' = [c \in Cells(r.game.size) |-> c = <<x, y>>]
            /\ start' = <<x, y>>
            /\ pushed' = <<<<x, y>>>>
            /\ popped' = <<>>
            /\ UNCHANGED result
       ELSE /\ pc' = "idle"
            /\ result' = r.result
            /\ UNCHANGED fill_vars

\* A call of click_tile(x, y) by the player.
ClickTile(x, y) ==
    /\ pc = "idle"
    /\ \E r \in {click_tile(self, x, y)} :
           LET went == r.fill \/ r.result = "Ok" IN
           /\ went => moves < MaxMoves
           /\ moves' = IF went THEN moves + 1 ELSE moves
           /\ Clicked(r, x, y)
    /\ UNCHANGED call

\* One iteration of the loop of flood_fill.
FloodStep ==
    /\ pc = "flood_fill"
    /\ queue # <<>>
    /\ \E st \in {flood_iteration([board |-> board, visited |-> visited,
                                     queue |-> queue, pushed |-> pushed])} :
           /\ board' = st.board
           /\ visited' = st.visited
           /\ queue' = st.queue
           /\ pushed' = st.pushed
    /\ popped' = Append(popped, Head(queue))
    /\ UNCHANGED <<game_state, size, bomb_count, pc, start, result, moves, call>>

\* pop_front returns None: flood_fill returns, click_tile checks the win
\* condition and returns Ok (which the expect of new_with_first_click accepts).
FloodDone ==
    /\ pc = "flood_fill"
    /\ queue = <<>>
    /\ game_state' = check_win_condition(board, game_state)
    /\ result' = "Ok"
    /\ pc' = "idle"
    /\ visited' = <<>>
    /\ start' = <<>>
    /\ pushed' = <<>>
    /\ popped' = <<>>
    /\ UNCHANGED <<board, size, bomb_count, queue, moves, call>>

\* A call of toggle_flag(x, y) by the player.
ToggleFlag(x, y) ==
    /\ pc = "idle"
    /\ \E r \in {toggle_flag(self, x, y)} :
       /\ r.result = "Ok" => moves < MaxMoves
       /\ moves' = IF r.result = "Ok" THEN moves + 1 ELSE moves
       /\ Leaves(r.game)
       /\ result' = r.result
    /\ UNCHANGED <<pc, fill_vars, call>>

\* The call Minesweeper::new(call.size, call.mine_locations).
CallNew ==
    /\ pc = "start"
    /\ call.fn = "new"
    /\ \E g \in {new(call.size, call.mine_locations)} : Leaves(g)
    /\ pc' = "idle"
    /\ UNCHANGED <<fill_vars, result, moves, call>>

\* The call Minesweeper::new_with_first_click(call.size, call.bomb_count,
\* call.first_click), up to its return, its panic, or the flood_fill its
\* click_tile enters.
NewWithFirstClick ==
    /\ pc = "start"
    /\ call.fn = "new_with_first_click"
    /\ UNCHANGED <<moves, call>>
    /\ LET n == call.size
           first_x == call.first_click[1]
           first_y == call.first_click[2]
       IN  IF first_x >= n \/ first_y >= n
           THEN /\ pc' = "panic"
                /\ UNCHANGED <<board, game_state, size, bomb_count, fill_vars, result>>
           ELSE LET all_positions == candidate_positions(n, call.bomb_count,
                                                         first_x, first_y)
                    k == Min(call.bomb_count, Len(all_positions))
                IN  \E draws \in DrawOutcomes(Len(all_positions), k) :
                    \E r \in {click_tile(new(n, draw_mines(all_positions, <<>>, draws, 1)),
                                          first_x, first_y)} :
                        IF ~r.fill /\ r.result # "Ok"
                        THEN /\ pc' = "panic"
                             /\ Leaves(r.game)
                             /\ result' = r.result
                             /\ UNCHANGED fill_vars
                        ELSE Clicked(r, first_x, first_y)

\* ------------------------------------------------------------ specifications
\* Lists of at most MaxMines coordinates, each index in 0 .. n (n is out of range).
MineLists(n) == UNION {[1 .. k -> (0 .. n) \X (0 .. n)] : k \in 0 .. MaxMines}

\* No game yet: constructor call c is about to run.
NoGame(c) ==
    /\ board = <<>>
    /\ game_state = "none"
    /\ size = 0
    /\ bomb_count = 0
    /\ pc = "start"
    /\ queue = <<>>
    /\ visited = <<>>
    /\ start = <<>>
    /\ pushed = <<>>
    /\ popped = <<>>
    /\ result = "none"
    /\ moves = 0
    /\ call = c

\* The state after Minesweeper::new(n, mines).
Init ==
    \E n \in 1 .. MaxSize : \E mines \in MineLists(n) :
        \E g \in {new(n, mines)} :
        /\ board = g.board
        /\ game_state = g.game_state
        /\ size = g.size
        /\ bomb_count = g.bomb_count
        /\ pc = "idle"
        /\ queue = <<>>
        /\ visited = <<>>
        /\ start = <<>>
        /\ pushed = <<>>
        /\ popped = <<>>
        /\ result = "none"
        /\ moves = 0
        /\ call = <<>>

\* The player's calls on a game built by new.
Next ==
    \/ \E x \in 0 .. size, y \in 0 .. size : ClickTile(x, y)
    \/ \E x \in 0 .. size, y \in 0 .. size : ToggleFlag(x, y)
    \/ FloodStep
    \/ FloodDone

Spec == Init /\ [][Next]_vars

\* The same, with a call that has begun running to its return: click_tile is
\* synchronous, so the loop of flood_fill takes its next iteration as long as
\* the queue holds a coordinate, and returns when it holds none.
SpecFair == Spec /\ WF_vars(FloodStep) /\ WF_vars(FloodDone)

\* Construction by new alone, for every size and list within the bounds.
InitNew ==
    \E n \in 1 .. MaxSize : \E mines \in MineLists(n) :
        NoGame([fn |-> "new", size |-> n, mine_locations |-> mines])

NextNew == CallNew

SpecNew == InitNew /\ [][NextNew]_vars

\* Construction by new_with_first_click, to the end of its first click, for
\* every size, bomb_count and first_click (n is out of range) within the bounds.
InitGen ==
    \E n \in 1 .. MaxGenSize, bombs \in 0 .. MaxBombCount :
        \E fx \in 0 .. n, fy \in 0 .. n :
            NoGame([fn |-> "new_with_first_click", size |-> n, bomb_count |-> bombs,
                    first_click |-> <<fx, fy>>])

NextGen ==
    \/ NewWithFirstClick
    \/ FloodStep
    \/ FloodDone

SpecGen == InitGen /\ [][NextGen]_vars

\* =================================================================== claims
Abs(i) == IF i < 0 THEN -i ELSE i

\* The tiles around c (c excluded) that lie on the board.
Neighbours(c) ==
    {d \in DOMAIN board : d # c /\ Abs(d[1] - c[1]) <= 1 /\ Abs(d[2] - c[2]) <= 1}

BombCells == {c \in DOMAIN board : is_bomb(board[c])}
ExposedCells == {c \in DOMAIN board : board[c].exposed}
FlaggedCells == {c \in DOMAIN board : board[c].flagged}

GameOver == game_state \in {"Won", "Lost"}

\* ----------------------------------------------------------------------- C1
\* C1: once game_state is Won or Lost, every click_tile(x, y) and every
\* toggle_flag(x, y), inside or outside the grid, returns the
\* game-already-over error and leaves every tile, game_state and bomb_count
\* as they were.
C1_GameOverRejectsEveryAction ==
    [][\A x \in 0 .. size, y \in 0 .. size :
          (GameOver /\ (ClickTile(x, y) \/ ToggleFlag(x, y)))
              => /\ result' = ErrFinished
                 /\ board' = board
                 /\ game_state' = game_state
                 /\ bomb_count' = bomb_count]_vars

\* The 2x2 scenario: the mine at (0,0) was clicked, and a later call was refused.
C1_Witness ==
    /\ size = 2
    /\ game_state = "Lost"
    /\ BombCells = {<<0, 0>>}
    /\ board[<<0, 0>>].exposed
    /\ result = ErrFinished

\* ----------------------------------------------------------------------- C2
\* C2: game_state only ever changes from InProgress to Won or from InProgress
\* to Lost; Won and Lost are never left.
C2_StateOnlyLeavesInProgress ==
    [][game_state' # game_state
          => game_state = "InProgress" /\ game_state' \in {"Won", "Lost"}]_vars

\* A game was won, then a call was made on it, and unexposed mines remain
\* that a click could hit.
C2_Witness ==
    /\ game_state = "Won"
    /\ result = ErrFinished
    /\ \E c \in BombCells : ~board[c].exposed /\ ~board[c].flagged

\* ----------------------------------------------------------------------- C3
\* C3: a successful click_tile on an unexposed, unflagged Bomb tile of a game
\* in progress makes the game Lost and leaves every Bomb tile exposed; the
\* exposed bit of every other tile and the flagged bit of every tile stay as
\* they were.
C3_BombClickLosesAndExposesBombs ==
    [][\A x \in 0 .. size - 1, y \in 0 .. size - 1 :
          (/\ click_error(self, x, y) = "none"
           /\ is_bomb(board[<<x, y>>])
           /\ ClickTile(x, y))
              => /\ game_state' = "Lost"
                 /\ \A c \in DOMAIN board :
                       /\ is_bomb(board[c]) => board'[c].exposed
                       /\ ~is_bomb(board[c]) => board'[c].exposed = board[c].exposed
                       /\ board'[c].flagged = board[c].flagged]_vars

\* A lost game with two mines exposed, one of them under a flag, beside an
\* exposed and an unexposed safe tile.
C3_Witness ==
    /\ game_state = "Lost"
    /\ Cardinality(BombCells) = 2
    /\ BombCells \subseteq ExposedCells
    /\ \E c \in BombCells : board[c].flagged
    /\ \E c \in ExposedCells : ~is_bomb(board[c])
    /\ \E c \in DOMAIN board : ~board[c].exposed

\* ----------------------------------------------------------------------- C4
AllSafeExposed == \A c \in DOMAIN board : ~is_bomb(board[c]) => board[c].exposed

\* C4 as stated: between calls, whenever every non-Bomb tile is exposed and no
\* Bomb was clicked, the game is Won (for every board and every sequence of
\* successful clicks, the empty one included).
C4_Original ==
    (pc = "idle" /\ game_state # "Lost" /\ AllSafeExposed) => game_state = "Won"

\* C4, amended: after at least one successful click_tile (so that some tile is
\* exposed), whenever every non-Bomb tile is exposed and no Bomb was clicked,
\* the game is Won, whatever tiles are flagged.
C4_ExposingAllSafeTilesWins ==
    (pc = "idle" /\ game_state # "Lost" /\ ExposedCells # {} /\ AllSafeExposed)
        => game_state = "Won"

\* A game won by several single-tile clicks while a tile carries a flag.
C4_Witness ==
    /\ game_state = "Won"
    /\ FlaggedCells # {}
    /\ Cardinality(ExposedCells) >= 2
    /\ \A c \in ExposedCells : board[c].value.n > 0

\* ----------------------------------------------------------------------- C5
NoDuplicates(list) == \A i, j \in 1 .. Len(list) : list[i] = list[j] => i = j

\* C5: while a flood_fill runs, no Bomb tile and no flagged tile gets its
\* exposed bit set, and no coordinate is pushed on the queue, or popped from
\* it, more than once.
C5_FloodFillSparesBombsAndFlags ==
    /\ [](pc = "flood_fill" => NoDuplicates(pushed) /\ NoDuplicates(popped))
    /\ [][pc = "flood_fill"
            => \A c \in DOMAIN board :
                   (board'[c].exposed /\ ~board[c].exposed)
                       => ~is_bomb(board[c]) /\ ~board[c].flagged]_vars

\* A finished flood_fill that dequeued several tiles and went round a flagged
\* safe tile next to one of them.
C5_Witness ==
    /\ pc = "flood_fill"
    /\ queue = <<>>
    /\ Len(popped) >= 2
    /\ \E c \in FlaggedCells :
          /\ ~is_bomb(board[c])
          /\ ~board[c].exposed
          /\ \E i \in 1 .. Len(popped) : c \in Neighbours(popped[i])

\* ----------------------------------------------------------------------- C6
\* One round of the closure: the unflagged safe neighbours of the zero tiles of R.
Grow(R) ==
    R \cup {d \in DOMAIN board :
               /\ ~is_bomb(board[d])
               /\ ~board[d].flagged
               /\ \E z \in R : board[z].value = Number(0) /\ d \in Neighbours(z)}

RECURSIVE Closure(_)
Closure(R) == IF Grow(R) = R THEN R ELSE Closure(Grow(R))

\* The least set holding s and, with each zero tile, its unflagged safe neighbours.
Region(s) == Closure({s})

\* C6: the click of a Number(0) tile s exposes exactly Region(s): when the
\* flood_fill ends every tile of the region is exposed, and no tile outside
\* it has changed its exposed bit. On the 3x3 board with one mine at (0,0)
\* and no flag, the click of (2,2) exposes the 8 other tiles and wins.
C6_FloodFillExposesRegion ==
    /\ []((pc = "flood_fill" /\ queue = <<>>) => Region(start) \subseteq ExposedCells)
    /\ [][pc = "flood_fill"
            => \A c \in DOMAIN board :
                   board'[c].exposed # board[c].exposed => c \in Region(start)]_vars
    /\ [][(/\ pc = "flood_fill" /\ pc' = "idle"
           /\ size = 3 /\ BombCells = {<<0, 0>>} /\ FlaggedCells = {}
           /\ start = <<2, 2>>)
            => /\ \A c \in DOMAIN board : c # <<0, 0>> => board'[c].exposed
               /\ ~board'[<<0, 0>>].exposed
               /\ game_state' = "Won"]_vars

\* A flood_fill from (2,2) that ended on a 3x3 board with its mine at (0,0)
\* and a flag on (0,2): the region is smaller than the set of safe tiles.
C6_Witness ==
    /\ pc = "flood_fill"
    /\ queue = <<>>
    /\ size = 3
    /\ BombCells = {<<0, 0>>}
    /\ FlaggedCells = {<<0, 2>>}
    /\ start = <<2, 2>>
    /\ Cardinality(Region(start)) = 7
    /\ ExposedCells = Region(start)

\* ----------------------------------------------------------------------- C7
FirstClickInGrid == call.first_click[1] < call.size /\ call.first_click[2] < call.size

C8_FirstClickIsSafe ==
    /\ pc = "panic" => ~FirstClickInGrid
    /\ pc \in {"flood_fill", "idle"}
          => ~is_bomb(board[call.first_click]) /\ game_state # "Lost"
    /\ pc = "idle" => result = "Ok"

\* A 2x2 game generated from the fallback list: both mines touch the first
\* click, which shows 2.
C8_Witness ==
    /\ pc = "idle"
    /\ call.size = 2
    /\ call.bomb_count = 2
    /\ board[call.first_click].value = Number(2)
    /\ board[call.first_click].exposed
    /\ result = "Ok"

\* ----------------------------------------------------------------------- C9
\* The distinct coordinates of the list handed to new that lie on the board.
ValidMines ==
    {call.mine_locations[i] : i \in 1 .. Len(call.mine_locations)} \cap Cells(call.size)

\* C9: get_bomb_count() of a game built by new is the number of distinct
\* in-grid coordinates of the list, which is the number of Bomb tiles, and is
\* at most size^2.
C9_BombCountIsNumberOfBombs ==
    pc = "idle"
        => /\ bomb_count = Cardinality(ValidMines)
           /\ bomb_count = Cardinality(BombCells)
           /\ bomb_count <= size * size

\* ---------------------------------------------------------------------- C10
\* C10: in every state of a game built by new, each tile that is no Bomb
\* holds Number(k), k in 0 .. 8 being the number of Bomb tiles among its
\* neighbours on the board; a Bomb tile holds no Number.
C10_NumbersCountAdjacentBombs ==
    \A c \in DOMAIN board :
        IF c \in BombCells
        THEN board[c].value = Bomb
        ELSE /\ board[c].value.tag = "Number"
             /\ board[c].value.n = Cardinality(Neighbours(c) \cap BombCells)
             /\ board[c].value.n \in 0 .. 8

\* A 3x3 game in play whose centre, between two mines, is exposed and shows 2.
C10_Witness ==
    /\ size = 3
    /\ BombCells = {<<0, 0>>, <<2, 2>>}
    /\ board[<<1, 1>>].value = Number(2)
    /\ board[<<1, 1>>].exposed
    /\ board[<<0, 2>>].value = Number(0)
    /\ board[<<0, 2>>].exposed

\* ---------------------------------------------------------------------- C11
\* The coordinates of the list handed to new, as a set.
ListedMines == {call.mine_locations[i] : i \in 1 .. Len(call.mine_locations)}

\* C11: Minesweeper::new never fails: the call always returns, and in the game
\* it returns a tile (x, y) is a Bomb exactly when (x, y) is in the list with
\* x < size and y < size, every tile is unexposed and unflagged, and
\* game_state is InProgress.
C11_NewPlacesListedMines ==
    /\ pc \in {"start", "idle"}
    /\ pc = "start" => ENABLED CallNew
    /\ pc = "idle"
          => /\ size = call.size
             /\ DOMAIN board = Cells(call.size)
             /\ \A x \in 0 .. size - 1, y \in 0 .. size - 1 :
                   is_bomb(board[<<x, y>>])
                       <=> (<<x, y>> \in ListedMines /\ x < size /\ y < size)
             /\ \A c \in DOMAIN board : ~board[c].exposed /\ ~board[c].flagged
             /\ game_state = "InProgress"

\* new(2, [(1,0), (1,0)]) and new(2, [(0,1), (2,0)]) have returned: a
\* duplicate, or an out-of-range entry, beside one mine off the diagonal.
C11_Witness ==
    /\ pc = "idle"
    /\ size = 2
    /\ Len(call.mine_locations) = 2
    /\ Cardinality(BombCells) = 1
    /\ \E c \in BombCells : c[1] # c[2]

\* ---------------------------------------------------------------------- C12
\* The step leaves all tiles, game_state, bomb_count and size as they were.
GameUnchanged ==
    /\ board' = board
    /\ game_state' = game_state
    /\ bomb_count' = bomb_count
    /\ size' = size

\* The call made in this step has returned an Err.
ReturnsErr == pc' = "idle" /\ result' # "Ok"

\* C12: while the game is InProgress, click_tile and toggle_flag with
\* x >= size or y >= size return the invalid-coordinates error, click_tile on
\* an exposed or flagged tile returns the tile-unavailable error, toggle_flag
\* on an exposed tile returns the cannot-flag-exposed error, and every call
\* that returns an error leaves all tiles, game_state and bomb_count unchanged.
\* (Each case is written in the contrapositive: a step that does not return
\* that error with the game unchanged is no such call.)
C12_FailingCallsChangeNothing ==
    [][\A x \in 0 .. size, y \in 0 .. size :
          /\ (/\ x >= size \/ y >= size
              /\ ~(ReturnsErr /\ result' = ErrInvalid /\ GameUnchanged)
              /\ game_state = "InProgress")
                => ~(ClickTile(x, y) \/ ToggleFlag(x, y))
          /\ (/\ x < size /\ y < size
              /\ board[<<x, y>>].exposed \/ board[<<x, y>>].flagged
              /\ ~(ReturnsErr /\ result' = ErrUnavailable /\ GameUnchanged)
              /\ game_state = "InProgress")
                => ~ClickTile(x, y)
          /\ (/\ x < size /\ y < size
              /\ board[<<x, y>>].exposed
              /\ ~(ReturnsErr /\ result' = ErrExposed /\ GameUnchanged)
              /\ game_state = "InProgress")
                => ~ToggleFlag(x, y)
          /\ (/\ ReturnsErr
              /\ ~GameUnchanged
              /\ game_state = "InProgress")
                => ~(ClickTile(x, y) \/ ToggleFlag(x, y))]_vars

\* A game in progress with a flag on one tile, where toggle_flag on an exposed
\* tile has just been refused.
C12_Witness ==
    /\ pc = "idle"
    /\ game_state = "InProgress"
    /\ result = ErrExposed
    /\ FlaggedCells # {}
    /\ ExposedCells # {}

\* ---------------------------------------------------------------------- C13
\* flag t, click t, unflag t, click t on the game of the current state: what
\* each of the four calls returns and leaves, against click t alone.
FlagClickUnflagClick(t) ==
    LET flag == toggle_flag(self, t[1], t[2])
        refused == click_tile(flag.game, t[1], t[2])
        unflag == toggle_flag(refused.game, t[1], t[2])
        clicked == click_tile(unflag.game, t[1], t[2])
    IN  /\ flag.result = "Ok"
        /\ refused.result = ErrUnavailable
        /\ ~refused.fill
        /\ refused.game = flag.game
        /\ ~refused.game.board[t].exposed
        /\ unflag.result = "Ok"
        /\ clicked.fill \/ clicked.result = "Ok"
        /\ clicked = click_tile(self, t[1], t[2])

\* C13 as stated: for every unexposed tile t of a game in progress,
\* toggle_flag(t) succeeds, click_tile(t) then returns the tile-unavailable
\* error and leaves t unexposed, and after a second toggle_flag(t) click_tile(t)
\* succeeds with the effect of a click on the game as it was.
C13_Original ==
    (pc = "idle" /\ game_state = "InProgress")
        => \A t \in DOMAIN board : ~board[t].exposed => FlagClickUnflagClick(t)

\* C13, amended: the same for every unexposed tile t that carries no flag.
C13_FlagBlocksClickUntilRemoved ==
    (pc = "idle" /\ game_state = "InProgress")
        => \A t \in DOMAIN board :
               (~board[t].exposed /\ ~board[t].flagged) => FlagClickUnflagClick(t)

\* The scenario half way: (0,0) was flagged and the click on it refused, on a
\* board where other tiles are open and (0,0) is a zero tile a click would
\* flood from.
C13_Witness ==
    /\ pc = "idle"
    /\ game_state = "InProgress"
    /\ result = ErrUnavailable
    /\ FlaggedCells = {<<0, 0>>}
    /\ board[<<0, 0>>].value = Number(0)
    /\ ~board[<<0, 0>>].exposed
    /\ ExposedCells # {}

\* ---------------------------------------------------------------------- C14
\* C14: a toggle_flag(x, y) that returns Ok inverts the flagged bit of tile
\* (x, y) and changes no other flagged bit, no value, no exposed bit, nor
\* game_state, bomb_count or size; a second toggle_flag(x, y) right after it
\* returns Ok and leaves the game as it was before the first; and no
\* toggle_flag, failing or not, changes game_state.
C14_ToggleFlagOnlyFlipsOneFlag ==
    [][\A x \in 0 .. size, y \in 0 .. size :
          /\ (result' = "Ok" /\ ToggleFlag(x, y))
                => /\ x < size /\ y < size
                   /\ board'[<<x, y>>].flagged = ~board[<<x, y>>].flagged
                   /\ \A c \in DOMAIN board :
                         /\ c # <<x, y>> => board'[c].flagged = board[c].flagged
                         /\ board'[c].value = board[c].value
                         /\ board'[c].exposed = board[c].exposed
                   /\ DOMAIN board' = DOMAIN board
                   /\ game_state' = game_state
                   /\ bomb_count' = bomb_count
                   /\ size' = size
                   /\ toggle_flag(self, x, y)'.result = "Ok"
                   /\ toggle_flag(self, x, y)'.game = self
          /\ (game_state' # game_state) => ~ToggleFlag(x, y)]_vars

\* Two successful toggle_flag calls, and nothing else, were made on a game:
\* no tile is flagged or exposed.
C14_Witness ==
    /\ pc = "idle"
    /\ moves = 2
    /\ result = "Ok"
    /\ game_state = "InProgress"
    /\ FlaggedCells = {}
    /\ ExposedCells = {}
    /\ BombCells # {}

\* ---------------------------------------------------------------------- C15
\* C15 as stated: in every reachable state, Won and Lost ones included, no
\* tile is both exposed and flagged.
C15_Original ==
    \A c \in DOMAIN board : ~(board[c].exposed /\ board[c].flagged)

\* C15, amended: a tile is both exposed and flagged only in a Lost game, and
\* only a Bomb tile; no step sets the flagged bit of an exposed tile, and the
\* only step that sets the exposed bit of a flagged tile is the losing click,
\* whose expose_all_bombs exposes the flagged Bomb tiles with the others.
C15_OnlyLosingClickExposesFlaggedBombs ==
    /\ [](\A c \in DOMAIN board :
             (board[c].exposed /\ board[c].flagged)
                 => game_state = "Lost" /\ is_bomb(board[c]))
    /\ [][\A c \in DOMAIN board :
             /\ (board'[c].flagged /\ ~board[c].flagged)
                   => ~board[c].exposed /\ ~board'[c].exposed
             /\ (board'[c].exposed /\ ~board[c].exposed /\ board[c].flagged)
                   => /\ is_bomb(board[c])
                      /\ game_state = "InProgress"
                      /\ game_state' = "Lost"]_vars

\* A lost game: the flagged mine is exposed, the flagged safe tile is not.
C15_Witness ==
    /\ game_state = "Lost"
    /\ \E c \in BombCells : board[c].flagged /\ board[c].exposed
    /\ \E c \in FlaggedCells : ~is_bomb(board[c]) /\ ~board[c].exposed

\* ---------------------------------------------------------------------- C16
\* C16: new_with_first_click with a first_click whose row or column is >= size
\* is rejected before any list, draw or board is made, and the rejection is
\* an outcome returned to the caller: the call does not abort.
C16_OutOfGridFirstClickIsReturnedFailure ==
    (pc # "start" /\ ~FirstClickInGrid)
        => /\ board = <<>>
           /\ game_state = "none"
           /\ pc # "panic"

\* ---------------------------------------------------------------------- C17
\* C17: a click_tile(x, y) on an unexposed, unflagged Number(k) tile, k > 0,
\* of a game in progress returns Ok at once, sets the exposed bit of tile
\* (x, y) and of no other tile, changes no flagged bit and no value, and
\* leaves game_state Won if no unexposed tile that is no Bomb remains, and
\* InProgress if one does.
C17_NumberClickExposesOneTile ==
    [][\A x \in 0 .. size - 1, y \in 0 .. size - 1 :
          (/\ pc = "idle"
           /\ game_state = "InProgress"
           /\ board[<<x, y>>].value.tag = "Number"
           /\ board[<<x, y>>].value.n > 0
           /\ ~board[<<x, y>>].exposed
           /\ ~board[<<x, y>>].flagged
           /\ ClickTile(x, y))
              => /\ pc' = "idle"
                 /\ result' = "Ok"
                 /\ board'[<<x, y>>].exposed
                 /\ \A c \in DOMAIN board :
                       /\ c # <<x, y>> => board'[c].exposed = board[c].exposed
                       /\ board'[c].flagged = board[c].flagged
                       /\ board'[c].value = board[c].value
                 /\ game_state' =
                       IF \E c \in DOMAIN board : ~is_bomb(board'[c]) /\ ~board'[c].exposed
                       THEN "InProgress" ELSE "Won"]_vars

\* A game won by two clicks on numbered tiles, with no flag set and the
\* mines unexposed.
C17_Witness ==
    /\ game_state = "Won"
    /\ moves = 2
    /\ result = "Ok"
    /\ FlaggedCells = {}
    /\ Cardinality(ExposedCells) = 2
    /\ \A c \in ExposedCells : board[c].value.n > 0
    /\ \A c \in BombCells : ~board[c].exposed

\* ---------------------------------------------------------------------- C18
\* The cells of the grid in the 3x3 block around the first click.
Zone ==
    {c \in Cells(call.size) : /\ Abs(c[1] - call.first_click[1]) <= 1
                              /\ Abs(c[2] - call.first_click[2]) <= 1}

\* The candidate pool: the grid without the zone when that leaves at least
\* bomb_count cells, the grid without the first-click cell otherwise.
Pool ==
    IF Cardinality(Cells(call.size) \ Zone) >= call.bomb_count
    THEN Cells(call.size) \ Zone
    ELSE Cells(call.size) \ {call.first_click}

\* C18: for every first_click inside the grid, the board new_with_first_click
\* builds holds exactly min(bomb_count, P) Bomb tiles, all on cells of the
\* pool (P its size), and get_bomb_count() is that number, which is the
\* bomb_count asked for whenever bomb_count <= P.
C18_GeneratedBoardHoldsMinBombs ==
    (pc \in {"flood_fill", "idle"} /\ FirstClickInGrid)
        => /\ Cardinality(BombCells) = Min(call.bomb_count, Cardinality(Pool))
           /\ BombCells \subseteq Pool
           /\ bomb_count = Cardinality(BombCells)
           /\ call.bomb_count <= Cardinality(Pool) => bomb_count = call.bomb_count

\* A 3x3 game generated around its centre: the zone is the whole grid, so the
\* two mines come from the fallback pool of 8 cells.
C18_Witness ==
    /\ pc = "idle"
    /\ call.size = 3
    /\ call.first_click = <<1, 1>>
    /\ call.bomb_count = 2
    /\ Cardinality(BombCells) = 2
    /\ bomb_count = 2

\* ---------------------------------------------------------------------- C19
\* C19: over every step of every click_tile, flood_fill and toggle_flag, an
\* exposed tile stays exposed, every tile keeps its value (Bomb or Number(k)),
\* and the grid, size and bomb_count stay as construction left them.
C19_ExposedAndValuesNeverRevert ==
    [][/\ DOMAIN board' = DOMAIN board
       /\ \A c \in DOMAIN board :
             /\ board[c].exposed => board'[c].exposed
             /\ board'[c].value = board[c].value
       /\ size' = size
       /\ bomb_count' = bomb_count]_vars

\* A game lost after a flood_fill had opened several safe tiles: they are
\* still exposed, beside the mines.
C19_Witness ==
    /\ game_state = "Lost"
    /\ FlaggedCells = {}
    /\ BombCells \subseteq ExposedCells
    /\ Cardinality(ExposedCells \ BombCells) >= 3
    /\ \E c \in DOMAIN board : ~board[c].exposed

\* ---------------------------------------------------------------------- C20
\* The number of coordinates flood_fill has not marked visited.
Unvisited == Cardinality({c \in DOMAIN visited : ~visited[c]})

\* C20: every flood_fill terminates. While it runs, a visited coordinate
\* stays visited and only visited coordinates are pushed, so at most size^2
\* coordinates are pushed, and no more popped than pushed; each iteration
\* marks a new coordinate or shortens the queue; the running loop always
\* reaches the empty queue and the return of click_tile, which happens on the
\* empty queue only, sets game_state by the win condition and returns Ok.
C20_FloodFillTerminates ==
    /\ [](pc = "flood_fill"
            => /\ Len(pushed) <= size * size
               /\ Len(popped) <= Len(pushed)
               /\ Len(queue) <= Len(pushed) - Len(popped)
               /\ \A i \in 1 .. Len(pushed) : visited[pushed[i]])
    /\ [][(pc = "flood_fill" /\ pc' = "flood_fill")
            => /\ \A c \in DOMAIN visited : visited[c] => visited'[c]
               /\ \/ Unvisited' < Unvisited
                  \/ Unvisited' = Unvisited /\ Len(queue') < Len(queue)]_vars
    /\ [][(pc = "flood_fill" /\ pc' # "flood_fill")
            => /\ queue = <<>>
               /\ pc' = "idle"
               /\ result' = "Ok"
               /\ board' = board
               /\ game_state' = IF AllSafeExposed THEN "Won" ELSE game_state]_vars
    /\ (pc = "flood_fill") ~> (pc = "idle")

\* A flood_fill on a 3x3 board without mines that has marked all nine
\* coordinates and still has coordinates to dequeue.
C20_Witness ==
    /\ pc = "flood_fill"
    /\ size = 3
    /\ BombCells = {}
    /\ Unvisited = 0
    /\ Len(pushed) = 9
    /\ Len(queue) >= 2

\* ---------------------------------------------------------------------- C21
\* The grid without the zone has at least bomb_count cells: the zone is usable.
ZoneUsable == Cardinality(Cells(call.size) \ Zone) >= call.bomb_count

\* C21: when the grid without the clipped 3x3 zone around first_click has at
\* least bomb_count cells, new_with_first_click puts no Bomb inside the zone,
\* the first-click tile is Number(0), and in the game it returns the
\* first-click tile and all its neighbours on the board are exposed.
C21_UsableZoneOpensAroundFirstClick ==
    (pc \in {"flood_fill", "idle"} /\ FirstClickInGrid /\ ZoneUsable)
        => /\ BombCells \cap Zone = {}
           /\ board[call.first_click].value = Number(0)
           /\ pc = "idle"
                 => /\ board[call.first_click].exposed
                    /\ \A c \in Neighbours(call.first_click) : board[c].exposed
                    /\ Zone \subseteq ExposedCells

\* A 4x4 game generated around (1,1): both mines lie outside the 9-cell zone,
\* which is open, and the game goes on.
C21_Witness ==
    /\ pc = "idle"
    /\ call.size = 4
    /\ call.first_click = <<1, 1>>
    /\ call.bomb_count = 2
    /\ Cardinality(Zone) = 9
    /\ Cardinality(BombCells) = 2
    /\ Zone \subseteq ExposedCells
    /\ game_state = "InProgress"

\* ---------------------------------------------------------------------- C22
\* C22: in every state a Bomb tile is exposed only if the game is Lost, and
\* the game is Won only if every tile that is no Bomb is exposed and no Bomb
\* is; and between calls, an InProgress game on which a click_tile has
\* succeeded (so that some tile is exposed) still has an unexposed tile that
\* is no Bomb.
C22_StateMatchesExposure ==
    /\ (\E c \in BombCells : board[c].exposed) => game_state = "Lost"
    /\ game_state = "Won"
          => /\ AllSafeExposed
             /\ \A c \in BombCells : ~board[c].exposed
    /\ (pc = "idle" /\ game_state = "InProgress" /\ ExposedCells # {})
          => \E c \in DOMAIN board : ~is_bomb(board[c]) /\ ~board[c].exposed

\* A game in progress after a flood_fill went round a flagged safe tile: that
\* tile is the only safe one still unexposed.
C22_Witness ==
    /\ pc = "idle"
    /\ game_state = "InProgress"
    /\ Cardinality(ExposedCells) >= 3
    /\ BombCells # {}
    /\ \E c \in FlaggedCells :
          {d \in DOMAIN board : ~is_bomb(board[d]) /\ ~board[d].exposed} = {c}

\* ---------------------------------------------------------------------- C23
\* C23: every click_tile that returns Ok has changed the exposed bit of the
\* clicked tile from false to true and has left more tiles exposed than it
\* found. A click that returns at once does so in its one step; a click that
\* enters flood_fill finds its tile unexposed, its first iteration exposes
\* that tile, later iterations take no exposed bit away, and it returns
\* after that first iteration only. The exposed tiles are tiles of the
\* size x size grid, so a click succeeds only while fewer than size^2 tiles
\* are exposed, and a game has at most size^2 successful clicks, whatever
\* toggle_flag calls (which expose nothing) come between them.
C23_SuccessfulClickExposesMore ==
    /\ [](/\ ExposedCells \subseteq Cells(size)
          /\ Cardinality(ExposedCells) <= size * size
          /\ pc = "flood_fill"
                => /\ start \in Cells(size)
                   /\ popped = <<>> => ~board[start].exposed /\ queue = <<start>>
                   /\ popped # <<>> => board[start].exposed)
    /\ [][\A x \in 0 .. size - 1, y \in 0 .. size - 1 :
             /\ (pc' = "idle" /\ result' = "Ok" /\ ClickTile(x, y))
                   => /\ ~board[<<x, y>>].exposed
                      /\ board'[<<x, y>>].exposed
                      /\ Cardinality(ExposedCells') > Cardinality(ExposedCells)
                      /\ Cardinality(ExposedCells) < size * size
             /\ (pc' = "flood_fill" /\ ClickTile(x, y))
                   => /\ ~board[<<x, y>>].exposed
                      /\ start' = <<x, y>>
                      /\ popped' = <<>>
                      /\ board' = board
                      /\ Cardinality(ExposedCells) < size * size]_vars
    /\ [][pc = "flood_fill"
             => /\ ExposedCells \subseteq ExposedCells'
                /\ pc' = "idle" => result' = "Ok" /\ popped # <<>> /\ board' = board]_vars
    /\ [][(pc = "idle" /\ ~(\E x \in 0 .. size, y \in 0 .. size : ClickTile(x, y)))
             => ExposedCells' = ExposedCells]_vars

\* Three clicks on numbered tiles have succeeded on a game that goes on:
\* three tiles are exposed.
C23_Witness ==
    /\ pc = "idle"
    /\ moves = 3
    /\ result = "Ok"
    /\ game_state = "InProgress"
    /\ FlaggedCells = {}
    /\ Cardinality(ExposedCells) = 3
    /\ \A c \in ExposedCells : board[c].value.n > 0

====
